---------------------------- MODULE Spec2Model ----------------------------
(***************************************************************************)
(* The seedling nursery simulator (seedling_simulator.py) as a state       *)
(* machine.  The script is a Streamlit page: every change of a widget      *)
(* reruns the whole script top to bottom with the widgets' current values. *)
(* The state is the widgets' current values and the figures the last run   *)
(* of the script computed and displayed.                                   *)
(*                                                                         *)
(* Arithmetic.  The script computes with Python floats; the model computes *)
(* the same expressions exactly, in fixed point:                           *)
(*   - costs are whole dollars on the sliders, prices whole cents, the     *)
(*     success rate a whole percentage;                                    *)
(*   - every money figure of the result is held in units of 1/MoneyScale   *)
(*     dollar (a hundredth of a cent);                                     *)
(*   - seedling counts are whole seedlings, the pest-adjusted counts are   *)
(*     held in hundredths of a seedling;                                   *)
(*   - a quotient is held as a record [kind, mul, num, den] whose value is *)
(*     mul * num / den.                                                    *)
(* Float rounding error is therefore not modelled.                         *)
(***************************************************************************)
EXTENDS Integers, FiniteSets, Sequences, TLC

VARIABLES
    widgets,        \* the current value of every input widget (lines 24-139, 287-291)
    result,         \* what the last run of the script computed (lines 146-316)
    prev_risk       \* history: the risk option of the run before the last one

vars == <<widgets, result, prev_risk>>

-----------------------------------------------------------------------------
(* Program constants *)

VEG_CYCLES_PER_YEAR == 4
TREE_CYCLES_PER_YEAR == 1
MONTHS_PER_YEAR == 12
PERCENT == 100
CENTS_PER_DOLLAR == 100
DROUGHT_SALES_PCT == 80
PEST_YIELD_PCT == 85

\* one dollar in money units: a price in cents times a count in hundredths
MoneyScale == CENTS_PER_DOLLAR * PERCENT

Dollars(d) == d * MoneyScale

Abs(x) == IF x < 0 THEN 0 - x ELSE x

-----------------------------------------------------------------------------
(* Floats that are not money: quotients and the infinity sentinel *)

FromInt(n) == [kind |-> "float", mul |-> 1, num |-> n, den |-> 1]

Inf == [kind |-> "inf", mul |-> 1, num |-> 1, den |-> 0]

\* Python's n / d: raises ZeroDivisionError when d is 0
Divide(n, d) ==
    IF d = 0
    THEN [kind |-> "ZeroDivisionError", mul |-> 1, num |-> n, den |-> 0]
    ELSE [kind |-> "float", mul |-> 1, num |-> n, den |-> d]

Times(q, k) == [q EXCEPT !.mul = @ * k]

Raised(q) == q.kind = "ZeroDivisionError"

-----------------------------------------------------------------------------
(* The risk options of the select slider and Python's `in` on them *)

NoRisk == "No Risk"
Drought == "Drought (-20% sales)"
Pest == "Pest Outbreak (-15% yield)"

RiskOptions == {NoRisk, Drought, Pest}

\* word in option, for the two words the script looks for
Contains(option, word) ==
    \/ word = "Drought" /\ option = Drought
    \/ word = "Pest" /\ option = Pest

-----------------------------------------------------------------------------
(* The widgets: the values a run of the script can read *)

\* the values of S a slider or number input with this range and step can take
OnWidget(S, lo, hi, step) ==
    {v \in S : lo <= v /\ v <= hi /\ (v - lo) % step = 0}

\* how many steps above its minimum the sampled vegetable prices go
SampleSteps == 0

greenhouse_cost_values == OnWidget({0, 300}, 0, 5000, 50)
irrigation_cost_values == OnWidget({0, 200}, 0, 3000, 25)
agric_inputs_cost_values == OnWidget({0, 200}, 0, 3000, 25)
labor_cost_per_month_values == OnWidget({0, 150}, 0, 2000, 10)
initial_veg_seedlings_per_cycle_values == OnWidget({1000, 10000}, 1000, 50000, 100)
successful_tree_seedlings_target_values == OnWidget({500, 2950}, 500, 20000, 50)
\* the slider's percentage, before the division by 100.0
success_rate_values == OnWidget({10, 85, 100}, 10, 100, 1)
\* prices in cents
avg_price_veg_values == OnWidget({1 + k : k \in 0..SampleSteps} \cup {15}, 1, 100, 1)
seed_cost_veg_cycle_values == OnWidget({0, 100}, 0, 2000, 10)
medium_cost_veg_cycle_values == OnWidget({0, 100}, 0, 2000, 10)
avg_price_tree_values == OnWidget({50, 450}, 50, 1000, 5)
seed_cost_tree_cycle_values == OnWidget({0, 150}, 0, 2000, 10)
medium_cost_tree_cycle_values == OnWidget({100, 150}, 0, 2000, 10)

\* the widgets' value= arguments
DefaultWidgets ==
    [ greenhouse_cost |-> 300,
      irrigation_cost |-> 200,
      agric_inputs_cost |-> 200,
      labor_cost_per_month |-> 150,
      initial_veg_seedlings_per_cycle |-> 10000,
      successful_tree_seedlings_target |-> 2950,
      success_rate |-> 85,
      avg_price_veg |-> 15,
      seed_cost_veg_cycle |-> 100,
      medium_cost_veg_cycle |-> 100,
      avg_price_tree |-> 450,
      seed_cost_tree_cycle |-> 150,
      medium_cost_tree_cycle |-> 150,
      risk_factor |-> NoRisk ]

-----------------------------------------------------------------------------
(* CORE SIMULATION LOGIC, one operator per assignment of the script *)

\* a price in cents, as money units per seedling
Price(cents) == cents * (MoneyScale \div CENTS_PER_DOLLAR)

\* x * pct / 100 for a money figure x that is a whole number of cents
Scale(x, pct) == (x \div PERCENT) * pct

\* mutant: the agricultural inputs left out of the setup cost
production_cost_without_inputs(greenhouse, irrigation, agric_inputs) ==
    Dollars(greenhouse + irrigation)

production_cost(greenhouse, irrigation, agric_inputs) ==
    Dollars(greenhouse + irrigation + agric_inputs)

\* whole seedlings: the planted count is a multiple of the widget's step of 100
successful_veg_per_cycle(initial_veg, rate_pct) ==
    (initial_veg * rate_pct) \div PERCENT

annual_successful_veg(successful_veg) == successful_veg * VEG_CYCLES_PER_YEAR

annual_revenue_veg(annual_veg, price_veg) == annual_veg * Price(price_veg)

opex_per_veg_cycle(seed_cost, medium_cost) == Dollars(seed_cost + medium_cost)

\* mutant: the per-cycle vegetable opex taken as the annual figure
annual_opex_veg_one_cycle(opex_cycle) == opex_cycle

annual_opex_veg(opex_cycle) == opex_cycle * VEG_CYCLES_PER_YEAR

\* mutant: the division without its guard
initial_tree_seedlings_unguarded(target, rate_pct) ==
    Divide(target * PERCENT, rate_pct)

\* target / success_rate if success_rate > 0 else 0, success_rate = rate_pct / 100
initial_tree_seedlings_per_year(target, rate_pct) ==
    IF rate_pct > 0 THEN Divide(target * PERCENT, rate_pct) ELSE FromInt(0)

annual_revenue_tree(target, price_tree) == target * Price(price_tree)

opex_per_tree_cycle(seed_cost, medium_cost) == Dollars(seed_cost + medium_cost)

annual_opex_tree(opex_cycle) == opex_cycle * TREE_CYCLES_PER_YEAR

total_annual_revenue(revenue_veg, revenue_tree) == revenue_veg + revenue_tree

total_annual_opex(opex_veg, opex_tree, labor_month) ==
    opex_veg + opex_tree + Dollars(labor_month * MONTHS_PER_YEAR)

total_annual_profit(revenue, opex) == revenue - opex

\* mutant: the guard lets a zero profit through
roi_years_guard_ge(setup, profit) ==
    IF profit >= 0 THEN Divide(setup, profit) ELSE Inf

roi_years(setup, profit) == IF profit > 0 THEN Divide(setup, profit) ELSE Inf

\* the ROI cell of the summary table: the format string and what it formats
summary_roi(roi) ==
    IF roi # Inf
    THEN [text |-> "{:.1f} years", args |-> {roi}]
    ELSE [text |-> "No positive profit", args |-> {}]

-----------------------------------------------------------------------------
(* RISKS SECTION *)

\* hundredths of a seedling
adj_successful_veg(successful_veg) == successful_veg * PEST_YIELD_PCT

\* mutant: the pest leaves the tree yield as it was
adj_successful_tree_unreduced(target) == target * PERCENT

adj_successful_tree(target) == target * PEST_YIELD_PCT

\* mutant: one vegetable cycle's revenue instead of the year's
adj_rev_veg_one_cycle(adj_veg, price_veg) == adj_veg * price_veg

adj_rev_veg(adj_veg, price_veg) == (adj_veg * VEG_CYCLES_PER_YEAR) * price_veg

adj_rev_tree(adj_tree, price_tree) == adj_tree * price_tree

\* mutant: Drought takes the pest's 15% off instead of 20%
adjusted_revenue_drought_15(risk, base_revenue, successful_veg, target, price_veg, price_tree) ==
    IF Contains(risk, "Pest")
    THEN adj_rev_veg(adj_successful_veg(successful_veg), price_veg)
         + adj_rev_tree(adj_successful_tree(target), price_tree)
    ELSE IF Contains(risk, "Drought") THEN Scale(base_revenue, PEST_YIELD_PCT)
         ELSE base_revenue

\* lines 293-304: starts from the base revenue; the two ifs are independent
adjusted_revenue(risk, base_revenue, successful_veg, target, price_veg, price_tree) ==
    LET start == base_revenue
        after_drought ==
            IF Contains(risk, "Drought") THEN Scale(start, DROUGHT_SALES_PCT)
            ELSE start
    IN  IF Contains(risk, "Pest")
        THEN adj_rev_veg(adj_successful_veg(successful_veg), price_veg)
             + adj_rev_tree(adj_successful_tree(target), price_tree)
        ELSE after_drought

risk_info(risk) ==
    IF Contains(risk, "Pest")
    THEN "Pest outbreak simulated: -15% yield (fewer sellable seedlings)."
    ELSE IF Contains(risk, "Drought")
         THEN "Drought simulated: -20% sales (revenue reduction)."
         ELSE "No major risk applied."

adjusted_annual_profit(adj_revenue, opex) == adj_revenue - opex

\* mutant: divides by the base profit itself, not its absolute value
pct_change_signed_base(adjusted_profit, base_profit) ==
    IF base_profit # 0
    THEN Times(Divide(adjusted_profit - base_profit, base_profit), PERCENT)
    ELSE FromInt(0)

\* ((adjusted - base) / abs(base)) * 100, or 0.0 for a zero base
pct_change(adjusted_profit, base_profit) ==
    IF base_profit # 0
    THEN Times(Divide(adjusted_profit - base_profit, Abs(base_profit)), PERCENT)
    ELSE FromInt(0)

-----------------------------------------------------------------------------
(* The calculation and display of one run, lines 143-316, on the values w *)

Calculation(w) ==
    LET setup == production_cost(w.greenhouse_cost, w.irrigation_cost,
                                 w.agric_inputs_cost)
        succ_veg == successful_veg_per_cycle(w.initial_veg_seedlings_per_cycle,
                                             w.success_rate)
        ann_veg == annual_successful_veg(succ_veg)
        rev_veg == annual_revenue_veg(ann_veg, w.avg_price_veg)
        ox_veg_c == opex_per_veg_cycle(w.seed_cost_veg_cycle, w.medium_cost_veg_cycle)
        ox_veg == annual_opex_veg(ox_veg_c)
        planted == initial_tree_seedlings_per_year(
                       w.successful_tree_seedlings_target, w.success_rate)
        rev_tree == annual_revenue_tree(w.successful_tree_seedlings_target,
                                        w.avg_price_tree)
        ox_tree_c == opex_per_tree_cycle(w.seed_cost_tree_cycle,
                                         w.medium_cost_tree_cycle)
        ox_tree == annual_opex_tree(ox_tree_c)
        revenue == total_annual_revenue(rev_veg, rev_tree)
        opex == total_annual_opex(ox_veg, ox_tree, w.labor_cost_per_month)
        profit == total_annual_profit(revenue, opex)
        roi == roi_years(setup, profit)
        pest == Contains(w.risk_factor, "Pest")
        adj_rev == adjusted_revenue(w.risk_factor, revenue, succ_veg,
                                    w.successful_tree_seedlings_target,
                                    w.avg_price_veg, w.avg_price_tree)
        adj_profit == adjusted_annual_profit(adj_rev, opex)
        pct == pct_change(adj_profit, profit)
    IN  [ \* an uncaught ZeroDivisionError ends the run: the page shows the exception
          error |-> IF Raised(planted) \/ Raised(roi) \/ Raised(pct)
                    THEN "ZeroDivisionError" ELSE "none",
          production_cost |-> setup,
          successful_veg_per_cycle |-> succ_veg,
          annual_successful_veg |-> ann_veg,
          annual_revenue_veg |-> rev_veg,
          opex_per_veg_cycle |-> ox_veg_c,
          annual_opex_veg |-> ox_veg,
          initial_tree_seedlings_per_year |-> planted,
          annual_revenue_tree |-> rev_tree,
          opex_per_tree_cycle |-> ox_tree_c,
          annual_opex_tree |-> ox_tree,
          total_annual_revenue |-> revenue,
          total_annual_opex |-> opex,
          total_annual_profit |-> profit,
          roi_years |-> roi,
          summary_roi |-> summary_roi(roi),
          \* bound only inside `if 'Pest' in risk_factor`: {} when not bound
          adj_successful_veg |-> IF pest THEN {adj_successful_veg(succ_veg)} ELSE {},
          adj_successful_tree |->
              IF pest THEN {adj_successful_tree(w.successful_tree_seedlings_target)}
              ELSE {},
          adjusted_revenue |-> adj_rev,
          risk_info |-> risk_info(w.risk_factor),
          adjusted_annual_profit |-> adj_profit,
          pct_change |-> pct ]

-----------------------------------------------------------------------------
(* One run of the script: the widgets' values go to the calculation as they *)
(* are; the script has no check of its own on them                          *)

\* the values outside the documented domains
OutOfDomain(w) ==
    \/ w.greenhouse_cost < 0
    \/ w.success_rate <= 0
    \/ w.success_rate > 100

\* mutant: a run that rejects out-of-domain values with a configuration error
Script_validating(w) ==
    IF OutOfDomain(w)
    THEN [Calculation(w) EXCEPT !.error = "ConfigurationError"]
    ELSE Calculation(w)

Script(w) == Calculation(w)

-----------------------------------------------------------------------------
(* The page: every widget change reruns the script *)

\* mutant: the risk is applied to the adjusted revenue the last run left
Rerun_on_adjusted(w) ==
    /\ widgets' = w
    /\ result' =
           LET run == Script(w)
               adj == adjusted_revenue(w.risk_factor, result.adjusted_revenue,
                          run.successful_veg_per_cycle,
                          w.successful_tree_seedlings_target,
                          w.avg_price_veg, w.avg_price_tree)
           IN  [run EXCEPT !.adjusted_revenue = adj,
                           !.adjusted_annual_profit =
                               adjusted_annual_profit(adj, run.total_annual_opex)]
    /\ prev_risk' = widgets.risk_factor

Rerun(w) ==
    /\ widgets' = w
    /\ result' = Script(w)
    /\ prev_risk' = widgets.risk_factor

\* The user moves one widget to another value, which reruns the script.
Set_greenhouse_cost ==
    \E v \in greenhouse_cost_values :
        /\ v # widgets.greenhouse_cost
        /\ Rerun([widgets EXCEPT !.greenhouse_cost = v])

Set_irrigation_cost ==
    \E v \in irrigation_cost_values :
        /\ v # widgets.irrigation_cost
        /\ Rerun([widgets EXCEPT !.irrigation_cost = v])

Set_agric_inputs_cost ==
    \E v \in agric_inputs_cost_values :
        /\ v # widgets.agric_inputs_cost
        /\ Rerun([widgets EXCEPT !.agric_inputs_cost = v])

Set_labor_cost_per_month ==
    \E v \in labor_cost_per_month_values :
        /\ v # widgets.labor_cost_per_month
        /\ Rerun([widgets EXCEPT !.labor_cost_per_month = v])

Set_initial_veg_seedlings_per_cycle ==
    \E v \in initial_veg_seedlings_per_cycle_values :
        /\ v # widgets.initial_veg_seedlings_per_cycle
        /\ Rerun([widgets EXCEPT !.initial_veg_seedlings_per_cycle = v])

Set_successful_tree_seedlings_target ==
    \E v \in successful_tree_seedlings_target_values :
        /\ v # widgets.successful_tree_seedlings_target
        /\ Rerun([widgets EXCEPT !.successful_tree_seedlings_target = v])

Set_success_rate ==
    \E v \in success_rate_values :
        /\ v # widgets.success_rate
        /\ Rerun([widgets EXCEPT !.success_rate = v])

Set_avg_price_veg ==
    \E v \in avg_price_veg_values :
        /\ v # widgets.avg_price_veg
        /\ Rerun([widgets EXCEPT !.avg_price_veg = v])

Set_seed_cost_veg_cycle ==
    \E v \in seed_cost_veg_cycle_values :
        /\ v # widgets.seed_cost_veg_cycle
        /\ Rerun([widgets EXCEPT !.seed_cost_veg_cycle = v])

Set_medium_cost_veg_cycle ==
    \E v \in medium_cost_veg_cycle_values :
        /\ v # widgets.medium_cost_veg_cycle
        /\ Rerun([widgets EXCEPT !.medium_cost_veg_cycle = v])

Set_avg_price_tree ==
    \E v \in avg_price_tree_values :
        /\ v # widgets.avg_price_tree
        /\ Rerun([widgets EXCEPT !.avg_price_tree = v])

Set_seed_cost_tree_cycle ==
    \E v \in seed_cost_tree_cycle_values :
        /\ v # widgets.seed_cost_tree_cycle
        /\ Rerun([widgets EXCEPT !.seed_cost_tree_cycle = v])

Set_medium_cost_tree_cycle ==
    \E v \in medium_cost_tree_cycle_values :
        /\ v # widgets.medium_cost_tree_cycle
        /\ Rerun([widgets EXCEPT !.medium_cost_tree_cycle = v])

Set_risk_factor ==
    \E v \in RiskOptions :
        /\ v # widgets.risk_factor
        /\ Rerun([widgets EXCEPT !.risk_factor = v])

\* the page as first served: every widget at its default, the script run once
Init ==
    /\ widgets = DefaultWidgets
    /\ result = Script(DefaultWidgets)
    /\ prev_risk = NoRisk

Next ==
    \/ Set_greenhouse_cost
    \/ Set_irrigation_cost
    \/ Set_agric_inputs_cost
    \/ Set_labor_cost_per_month
    \/ Set_initial_veg_seedlings_per_cycle
    \/ Set_successful_tree_seedlings_target
    \/ Set_success_rate
    \/ Set_avg_price_veg
    \/ Set_seed_cost_veg_cycle
    \/ Set_medium_cost_veg_cycle
    \/ Set_avg_price_tree
    \/ Set_seed_cost_tree_cycle
    \/ Set_medium_cost_tree_cycle
    \/ Set_risk_factor

Spec == Init /\ [][Next]_vars

-----------------------------------------------------------------------------
(* The calculation alone, as a function of whatever values it is given:    *)
(* the values of the page, and values no widget can produce (a success     *)
(* rate of 0, which line 157 guards against, and a negative cost).         *)

CalculationInputs ==
    [ greenhouse_cost |-> {0 - 50, 0, 300},
      labor_cost_per_month |-> {0, 150},
      initial_veg_seedlings_per_cycle |-> {1000, 10000},
      successful_tree_seedlings_target |-> {500, 2950},
      success_rate |-> {0, 10, 85, 100},
      avg_price_veg |-> {1, 15},
      seed_cost_veg_cycle |-> {0, 100},
      medium_cost_veg_cycle |-> {0, 100},
      avg_price_tree |-> {50, 450},
      medium_cost_tree_cycle |-> {100, 150},
      risk_factor |-> RiskOptions ]

Evaluate ==
    \E field \in DOMAIN CalculationInputs :
        \E v \in CalculationInputs[field] :
            /\ v # widgets[field]
            /\ Rerun([widgets EXCEPT ![field] = v])

NextCalculation == Evaluate

SpecCalculation == Init /\ [][NextCalculation]_vars

-----------------------------------------------------------------------------
(* What the claims compare the result with: the figures written out from   *)
(* the widget values, in money units                                       *)

VegRevenuePerYear ==
    widgets.initial_veg_seedlings_per_cycle * widgets.success_rate * 4
        * widgets.avg_price_veg

TreeRevenuePerYear ==
    widgets.successful_tree_seedlings_target * widgets.avg_price_tree * 100

OpexPerYear ==
    ( (widgets.seed_cost_veg_cycle + widgets.medium_cost_veg_cycle) * 4
      + (widgets.seed_cost_tree_cycle + widgets.medium_cost_tree_cycle) * 1
      + widgets.labor_cost_per_month * 12 ) * MoneyScale

PestRevenuePerYear ==
    ((widgets.initial_veg_seedlings_per_cycle * widgets.success_rate) \div 100)
        * 85 * 4 * widgets.avg_price_veg
    + widgets.successful_tree_seedlings_target * 85 * widgets.avg_price_tree

-----------------------------------------------------------------------------
\* C1: annual profit is total annual revenue minus total annual opex, both per
\* year: revenue = veg per cycle * success rate * 4 * veg price + tree target *
\* tree price, opex = veg (seed + medium) * 4 + tree (seed + medium) * 1 +
\* monthly labour * 12.
AnnualProfitInPerYearUnits ==
    /\ result.total_annual_revenue = VegRevenuePerYear + TreeRevenuePerYear
    /\ result.total_annual_opex = OpexPerYear
    /\ result.total_annual_profit
           = (VegRevenuePerYear + TreeRevenuePerYear) - OpexPerYear

\* a loss-making year: $4 + $250 of revenue against $800 + $300 + $1800 of opex
AnnualLossReached ==
    /\ result.total_annual_revenue = Dollars(254)
    /\ result.total_annual_opex = Dollars(2900)
    /\ result.total_annual_profit = 0 - Dollars(2646)

\* C2: ROI is setup cost / annual profit exactly when the profit is positive;
\* otherwise it is the sentinel, the summary shows the textual fallback and no
\* infinite value is formatted into it.
RoiSentinelOnNonPositiveProfit ==
    LET profit == result.total_annual_profit
        quotient == [kind |-> "float", mul |-> 1,
                     num |-> result.production_cost, den |-> profit]
    IN  /\ profit > 0 =>
              /\ result.roi_years = quotient
              /\ result.summary_roi = [text |-> "{:.1f} years", args |-> {quotient}]
        /\ profit <= 0 =>
              /\ result.roi_years = Inf
              /\ result.summary_roi = [text |-> "No positive profit", args |-> {}]
        /\ \A shown \in result.summary_roi.args : shown.kind = "float"

\* break-even: the profit is exactly 0 and the fallback text is shown
BreakEvenShowsFallback ==
    /\ result.total_annual_profit = 0
    /\ result.total_annual_revenue = Dollars(650)
    /\ result.summary_roi.text = "No positive profit"

\* C3: under Drought the adjusted revenue is exactly 0.80 of the base revenue,
\* the sellable yields are the base yields (no reduced yield is computed), and
\* the adjusted profit is that revenue minus the unchanged opex.
DroughtIsFlatRevenueHaircut ==
    widgets.risk_factor = Drought =>
        /\ result.total_annual_revenue = VegRevenuePerYear + TreeRevenuePerYear
        /\ result.adjusted_revenue * 5 = result.total_annual_revenue * 4
        /\ result.successful_veg_per_cycle * 100
               = widgets.initial_veg_seedlings_per_cycle * widgets.success_rate
        /\ result.annual_successful_veg = result.successful_veg_per_cycle * 4
        /\ result.adj_successful_veg = {}
        /\ result.adj_successful_tree = {}
        /\ result.total_annual_opex = OpexPerYear
        /\ result.adjusted_annual_profit = result.adjusted_revenue - OpexPerYear

\* Drought on the default inputs: $18,375 of revenue becomes $14,700
DroughtOnDefaults ==
    /\ widgets.risk_factor = Drought
    /\ result.total_annual_revenue = Dollars(18375)
    /\ result.adjusted_revenue = Dollars(14700)
    /\ result.adjusted_annual_profit = Dollars(14700 - 2900)

\* C4: under PestOutbreak both sellable yields (vegetables per cycle, trees per
\* year) are multiplied by 0.85, the adjusted revenue is the sum over the two
\* categories of reduced annual yield times price, and the adjusted profit is
\* that revenue minus the unchanged opex.
PestReducesEveryYield ==
    widgets.risk_factor = Pest =>
        /\ result.adj_successful_veg = {result.successful_veg_per_cycle * 85}
        /\ result.successful_veg_per_cycle * 100
               = widgets.initial_veg_seedlings_per_cycle * widgets.success_rate
        /\ result.adj_successful_tree = {widgets.successful_tree_seedlings_target * 85}
        /\ result.adjusted_revenue = PestRevenuePerYear
        /\ result.total_annual_opex = OpexPerYear
        /\ result.adjusted_annual_profit = PestRevenuePerYear - OpexPerYear

\* PestOutbreak on the default inputs: 7,225 and 2,507.5 seedlings, $15,618.75
PestOnDefaults ==
    /\ widgets.risk_factor = Pest
    /\ result.adj_successful_veg = {722500}
    /\ result.adj_successful_tree = {250750}
    /\ result.adjusted_revenue = Dollars(15618) + 7500

\* C5 as stated: with differing prices the revenue recomputed from the reduced
\* yields differs from 0.85 of the base revenue.
PestDiffersFromFlatHaircut ==
    (widgets.risk_factor = Pest /\ widgets.avg_price_veg # widgets.avg_price_tree)
        => result.adjusted_revenue # (result.total_annual_revenue \div 20) * 17

\* C5 as amended: the revenue recomputed from the 15%-reduced yields is exactly
\* 0.85 of the base revenue, also when the two prices differ.
PestEqualsFlatHaircut ==
    widgets.risk_factor = Pest =>
        /\ result.total_annual_revenue = VegRevenuePerYear + TreeRevenuePerYear
        /\ result.total_annual_revenue % 20 = 0
        /\ result.adjusted_revenue = (result.total_annual_revenue \div 20) * 17

\* PestOutbreak with differing prices ($0.01 and $4.50) and both revenues positive
PestWithDifferingPrices ==
    /\ widgets.risk_factor = Pest
    /\ widgets.avg_price_veg = 1
    /\ widgets.avg_price_tree = 450
    /\ result.annual_revenue_veg > 0
    /\ result.annual_revenue_tree > result.annual_revenue_veg

\* C6: the risk transform never compounds: whatever was selected before, the
\* adjusted revenue and profit are those of the current inputs under the
\* current option alone: the base figures under No Risk, 0.80 of the base
\* revenue under Drought (never 0.64), the recomputed revenue under Pest.
RiskNeverCompounds ==
    LET base == VegRevenuePerYear + TreeRevenuePerYear
        risk == widgets.risk_factor
    IN  /\ result.total_annual_revenue = base
        /\ risk = NoRisk =>
              /\ result.adjusted_revenue = base
              /\ result.adjusted_annual_profit = result.total_annual_profit
        /\ risk = Drought => result.adjusted_revenue * 5 = base * 4
        /\ risk = Pest => result.adjusted_revenue = PestRevenuePerYear
        /\ result.adjusted_annual_profit = result.adjusted_revenue - OpexPerYear

\* a run under Drought that follows a run under Drought
DroughtEvaluatedTwice ==
    /\ prev_risk = Drought
    /\ widgets.risk_factor = Drought
    /\ result.total_annual_revenue > 0
    /\ result.adjusted_revenue * 5 = result.total_annual_revenue * 4

\* C7: the percentage change is (adjusted profit - base profit) / |base profit|
\* * 100 when the base profit is not 0, so that it has the sign of the profit
\* change also for a negative base, and 0 when the base profit is 0; no
\* division by zero occurs.
PercentChangeGuarded ==
    LET base == result.total_annual_profit
        adjusted == result.adjusted_annual_profit
        pct == result.pct_change
    IN  /\ result.error = "none"
        /\ pct.kind = "float"
        /\ base # 0 =>
              /\ pct.num = adjusted - base
              /\ pct.den = (IF base < 0 THEN 0 - base ELSE base)
              /\ pct.mul = 100
              /\ pct.den > 0
        /\ base = 0 => pct = [kind |-> "float", mul |-> 1, num |-> 0, den |-> 1]

\* a loss made worse by Drought: the change is negative against a negative base
LossWorsenedByDrought ==
    /\ widgets.risk_factor = Drought
    /\ result.total_annual_profit < 0
    /\ result.adjusted_annual_profit < result.total_annual_profit
    /\ result.pct_change.num < 0
    /\ result.pct_change.den = 0 - result.total_annual_profit

ZeroSuccessRateIsGuarded ==
    LET rate == widgets.success_rate
        target == widgets.successful_tree_seedlings_target
        profit == result.total_annual_profit
    IN  /\ result.error = "none"
        /\ rate = 0 =>
              /\ result.initial_tree_seedlings_per_year
                     = [kind |-> "float", mul |-> 1, num |-> 0, den |-> 1]
              /\ result.successful_veg_per_cycle = 0
              /\ result.annual_successful_veg = 0
              /\ result.annual_revenue_veg = 0
              /\ result.roi_years.kind = (IF profit > 0 THEN "float" ELSE "inf")
              /\ result.pct_change.kind = "float"
              /\ profit = 0 => result.pct_change.num = 0
        /\ rate # 0 =>
              result.initial_tree_seedlings_per_year
                  = [kind |-> "float", mul |-> 1, num |-> target * 100, den |-> rate]

\* success rate 0 at break-even: both guards taken, nothing planted
ZeroSuccessRateAtBreakEven ==
    /\ widgets.success_rate = 0
    /\ result.total_annual_profit = 0
    /\ result.initial_tree_seedlings_per_year.num = 0
    /\ result.roi_years = Inf
    /\ result.pct_change.num = 0

\* C10: the setup cost is greenhouse + irrigation + agricultural inputs, is
\* never negative, and does not change in a run in which those three costs
\* stay as they were (a change of the success rate, of the risk option or of
\* any other input).
SetupCostIsSumAndFramed ==
    /\ [](/\ result.production_cost
                 = (widgets.greenhouse_cost + widgets.irrigation_cost
                    + widgets.agric_inputs_cost) * MoneyScale
          /\ result.production_cost >= 0)
    /\ [][ ( /\ widgets'.greenhouse_cost = widgets.greenhouse_cost
             /\ widgets'.irrigation_cost = widgets.irrigation_cost
             /\ widgets'.agric_inputs_cost = widgets.agric_inputs_cost )
           => result'.production_cost = result.production_cost ]_vars

\* the default $700 setup cost after the success rate and the risk were changed
SetupCostAfterRateAndRiskChange ==
    /\ widgets.success_rate # 85
    /\ widgets.risk_factor # NoRisk
    /\ prev_risk # widgets.risk_factor
    /\ result.production_cost = Dollars(700)

=============================================================================
